---- MODULE Spec2Model ----
(***************************************************************************)
(* A model of discord.ext.slash (src/discord/ext/slash/__init__.py):       *)
(*   - the interaction resolution and dispatch pipeline                    *)
(*     (SlashBot.on_interaction_create, Context.__init__,                  *)
(*      Context._kwargs_from_options, Context._try_get, Command.invoke,    *)
(*      Command.can_run, Command.invoke_parents);                          *)
(*   - the remote reconciler (SlashBot.register_commands, sync_cmds,       *)
(*     process_command) against a platform that stores what it is sent.    *)
(* Python's None is the string "None"; a command's missing id is NoId.     *)
(***************************************************************************)
EXTENDS Integers, Sequences, FiniteSets, TLC

VARIABLES
    \* ---- the bot --------------------------------------------------------
    cmds,       \* SlashBot.slash: object -> [name, guild_id, id, description, options]
    flags,      \* [resolve_not_fetch, fetch_if_not_get, debug_guild, cog]
    \* ---- one invocation event (on_interaction_create) --------------------
    pc,         \* position of the handler coroutine
    event,      \* the event being handled
    ctx,        \* the Context under construction / in use
    try,        \* the record of the latest Context._try_get call
    log,        \* what the handler has called so far: checks, hooks, bodies
    outcome,    \* [error, hooked, raised]: how the handler ended
    \* ---- one sync run (register_commands) and the platform ---------------
    rpc,        \* position of register_commands
    remote,     \* the platform: scope -> set of registered command records
    nextId,     \* the platform's next fresh command id
    guilds,     \* register_commands' local  guilds : scope -> name -> object
    todoScopes, \* scopes still to list, in the order the run lists them
    state,      \* the reconciliation state: set of queued operations
    tasks,      \* process_command tasks in flight
    settled,    \* tasks of this run that have settled: [op, ok]
    sync,       \* the latest sync_cmds call: its arguments and its three sets
    runs,       \* how many times register_commands has been started
    \* ---- one Command under construction (Command.__init__) ---------------
    sig,        \* the callback: [description, params]
    built,      \* what Command(coro) gave: [done, error, ctx_arg, options]
    \* ---- one Context's response handle (Context.respond, Context.delete) -
    webhook,    \* Context.webhook: None until the first callback is prepared
    sent,       \* the requests handed to client.http.request, in order
    warnings,   \* the warnings emitted by warn(), in order
    history     \* the respond/delete calls made so far, with how each ended

botVars  == <<cmds, flags>>
evVars   == <<pc, event, ctx, try, log, outcome>>
syncVars == <<rpc, remote, nextId, guilds, todoScopes, state, tasks, settled, sync, runs>>
defVars  == <<sig, built>>
respVars == <<webhook, sent, warnings, history>>
auxVars  == <<sig, built, webhook, sent, warnings, history>>
vars     == <<cmds, flags, pc, event, ctx, try, log, outcome,
              rpc, remote, nextId, guilds, todoScopes, state, tasks, settled, sync,
              runs, sig, built, webhook, sent, warnings, history>>

None == "None"
NoId == 0

(***************************************************************************)
(* Bounds of the model.                                                    *)
(***************************************************************************)
MaxRuns   == 2      \* register_commands is started at most this many times
MaxLocal  == 2      \* top-level commands declared locally (sync runs)
MaxRemote == 2      \* commands registered on the platform before the first run

(***************************************************************************)
(* ApplicationCommandOptionType: the members the binder resolves to        *)
(* entities (lines 279-283); every other type passes the raw value.        *)
(***************************************************************************)
EntityTypes == {"USER", "CHANNEL", "ROLE"}

(***************************************************************************)
(* The declared command tree used for dispatch.                            *)
(*   grp  (Group, global)  ->  sub (Group)  ->  leaf (Command)             *)
(*   solo (Command, guild g1)                                              *)
(* leaf declares  n: Option(name='amount', INTEGER), who: Option(USER),    *)
(* chan: Option(CHANNEL), role: Option(ROLE); solo declares text: STRING.  *)
(***************************************************************************)
Nodes == {"grp", "sub", "leaf", "solo"}

IsGroup(n) == n \in {"grp", "sub"}

\* Command.parent
Parent(n) ==
    CASE n = "leaf" -> "sub"
      [] n = "sub"  -> "grp"
      [] OTHER      -> None

\* Group.slash: the names of a group's children
Children(n) ==
    CASE n = "grp" -> {"sub"}
      [] n = "sub" -> {"leaf"}
      [] OTHER     -> {}

\* Command.options: parameter name -> [name (declared), type]
Options(n) ==
    CASE n = "leaf" ->
            [p \in {"n", "who", "chan", "role"} |->
                CASE p = "n"    -> [name |-> "amount", type |-> "INTEGER"]
                  [] p = "who"  -> [name |-> "who",    type |-> "USER"]
                  [] p = "chan" -> [name |-> "chan",   type |-> "CHANNEL"]
                  [] p = "role" -> [name |-> "role",   type |-> "ROLE"]]
      [] n = "solo" ->
            [p \in {"text"} |-> [name |-> "text", type |-> "STRING"]]
      [] OTHER -> [p \in {} |-> [name |-> "", type |-> "STRING"]]

\* Command._ctx_arg: the parameter annotated with Context
CtxArg(n) == "ctx"

\* Command.cog: add_slash_cog sets the cog on every Command/Group attribute
NodeCog(n) == flags.cog

(***************************************************************************)
(* Context._try_get.                                                       *)
(*   fq, fng      : the two policy flags as the call resolves them         *)
(*   get          : what get_method does: "hit" (an entity), "miss" (None),*)
(*                  "attr" (AttributeError: self.guild has no getter),   *)
(*                  "nofn" (get_method is None: calling it is a TypeError) *)
(*   fetch        : what fetch_method does: "ok", "http" (HTTPException),  *)
(*                  "nofn" (fetch_method is None)                          *)
(*   hasResolved  : resolved is not None                                   *)
(*   inSnap       : str(default.id) in resolved[typename+'s']              *)
(*   resolve      : what resolve_method does: "ok" or "KeyError"           *)
(* The result: value is "cached", "fetched", "partial" or "default";       *)
(* error is "none" or the exception that leaves _try_get; calls lists the  *)
(* accessors invoked, in order.                                            *)
(***************************************************************************)
TryResult(v, e, c) == [value |-> v, error |-> e, calls |-> c]

\* a _try_get without the snapshot tier
TryResolveSkipped(hasResolved, inSnap, resolve, calls) ==
    TryResult("default", "none", calls)

\* lines 390-401: the snapshot tier and the placeholder
TryResolve(hasResolved, inSnap, resolve, calls) ==
    IF ~hasResolved THEN TryResult("default", "none", calls)
    ELSE IF ~inSnap THEN TryResult("default", "none", calls)
    ELSE IF resolve = "ok"
         THEN TryResult("partial", "none", Append(calls, "resolve"))
         ELSE TryResult("none", resolve, Append(calls, "resolve"))

\* lines 356-389: the try block
TryBlock(fng, get, fetch, hasResolved, inSnap, resolve) ==
    IF get = "nofn"
    THEN \* None(default.id): a TypeError, which no except clause catches
         TryResult("none", "TypeError", <<"get">>)
    ELSE IF get = "attr"
    THEN \* AttributeError: caught, fall back to resolving
         TryResolve(hasResolved, inSnap, resolve, <<"get">>)
    ELSE IF get = "miss" /\ fng
    THEN \* obj is None and fng: fall back to fetching
         IF fetch = "ok"
         THEN TryResult("fetched", "none", <<"get", "fetch">>)
         ELSE IF fetch = "http"
         THEN TryResolve(hasResolved, inSnap, resolve, <<"get", "fetch">>)
         ELSE TryResult("none", "TypeError", <<"get", "fetch">>)
    ELSE IF ~fng
    THEN \* elif not fng: raise ValueError, whatever obj is; caught
         TryResolve(hasResolved, inSnap, resolve, <<"get">>)
    ELSE \* obj is not None and fng: return obj
         TryResult("cached", "none", <<"get">>)

TryGet(fq, fng, get, fetch, hasResolved, inSnap, resolve) ==
    IF fq \/ ~hasResolved \/ ~inSnap
    THEN TryBlock(fng, get, fetch, hasResolved, inSnap, resolve)
    ELSE TryResolve(hasResolved, inSnap, resolve, <<>>)

\* the defaults of lines 351-352
DefaultFq  == ~flags.resolve_not_fetch
DefaultFng == flags.fetch_if_not_get

\* one _try_get call as the handler records it: the inputs the call consumed
\* ("-" for an accessor it never invoked) and what it returned
TryRec(typename, fq, fng, get, fetch, hasResolved, inSnap, resolve) ==
    LET r == TryGet(fq, fng, get, fetch, hasResolved, inSnap, resolve)
        called(a) == \E i \in 1..Len(r.calls) : r.calls[i] = a
    IN  [typename |-> typename, fq |-> fq, fng |-> fng,
         get   |-> IF called("get") THEN get ELSE "-",
         fetch |-> IF called("fetch") THEN fetch ELSE "-",
         resolve |-> IF called("resolve") THEN resolve ELSE "-",
         hasResolved |-> hasResolved, inSnap |-> inSnap,
         value |-> r.value, error |-> r.error, calls |-> r.calls]

\* Context._get_member / get_channel / get_role (lines 302-303, 325-326,
\* 403-404) go through self.guild: only a real Guild has these accessors
GuildGets(guild) == IF guild = "Guild" THEN {"hit", "miss"} ELSE {"attr"}
ClientGets == {"hit", "miss"}
Fetches    == {"ok", "http"}

(***************************************************************************)
(* The events the model delivers.  An option entry is                      *)
(*   [name, kind, value, options], kind "value" (a terminal {name, value}),*)
(*   "options" ({name, options: [...]}) or "bare" ({name} alone).          *)
(***************************************************************************)
EntityId == "E1"

ValueEntry(n, v) == [name |-> n, kind |-> "value", value |-> v, options |-> <<>>]
SubEntry(n, o)   == [name |-> n, kind |-> "options", value |-> "", options |-> o]
BareEntry(n)     == [name |-> n, kind |-> "bare", value |-> "", options |-> <<>>]

Snapshot(m, u, c, r) == [members |-> m, users |-> u, channels |-> c, roles |-> r]
NoSnapshot == Snapshot({}, {}, {}, {})

\* the option trees addressed to the group  grp
LeafCall(opts) == <<SubEntry("sub", <<SubEntry("leaf", opts)>>)>>

GrpShapes ==
    {[options |-> LeafCall(<<ValueEntry("amount", "5")>>), resolved |-> NoSnapshot],
     [options |-> LeafCall(<<ValueEntry("bogus", "5")>>),  resolved |-> NoSnapshot],
     [options |-> LeafCall(<<>>),                          resolved |-> NoSnapshot],
     [options |-> <<SubEntry("sub", <<BareEntry("leaf")>>)>>, resolved |-> NoSnapshot],
     [options |-> <<>>,                                    resolved |-> NoSnapshot]}
    \cup {[options |-> LeafCall(<<ValueEntry("who", EntityId)>>),
           resolved |-> Snapshot(m, u, {}, {})] :
                m \in SUBSET {EntityId}, u \in SUBSET {EntityId}}
    \cup {[options |-> LeafCall(<<ValueEntry("chan", EntityId)>>),
           resolved |-> Snapshot({}, {}, c, {})] : c \in SUBSET {EntityId}}
    \cup {[options |-> LeafCall(<<ValueEntry("role", EntityId)>>),
           resolved |-> Snapshot({}, {}, {}, r)] : r \in SUBSET {EntityId}}

SoloShapes ==
    {[options |-> <<>>, resolved |-> NoSnapshot],
     [options |-> <<ValueEntry("text", "hi")>>, resolved |-> NoSnapshot]}

\* the ids the platform gave the two top-level commands, and an unknown one
GrpId  == 1
SoloId == 2
LostId == 9

\* an event comes from a direct message (no guild_id), from the guild solo
\* is declared for, or from another guild
EventGuilds == {None, "g1", "g2"}

MkEvent(id, name, g, sh) ==
    [id |-> id, name |-> name, guild_id |-> g, member |-> (g # None),
     options |-> sh.options, resolved |-> sh.resolved]

\* grp is global and can be used anywhere; solo, under the id the platform
\* gave it, in g1 alone.  The platform may also hold, under another id, a
\* command named solo that an earlier deployment registered globally or for
\* another guild and that no DELETE has removed yet, and a command the
\* registry does not know at all.
Events ==
    {MkEvent(GrpId, "grp", g, sh) : g \in EventGuilds, sh \in GrpShapes}
    \cup {MkEvent(SoloId, "solo", "g1", sh) : sh \in SoloShapes}
    \cup {MkEvent(LostId, "solo", g, sh) : g \in EventGuilds, sh \in SoloShapes}
    \cup {MkEvent(LostId, "nope", g, [options |-> <<>>, resolved |-> NoSnapshot]) :
                g \in EventGuilds}

NoEvent == MkEvent(NoId, "", None, [options |-> <<>>, resolved |-> NoSnapshot])

(***************************************************************************)
(* The handler's state.                                                    *)
(***************************************************************************)
NoEntry == BareEntry("")

\* a Context before __init__ has run.  command is Context.command as the
\* binder moves it down the tree; cmd is the place in the registry of the
\* command on_interaction_create constructed the Context with (0: none)
NoCtx ==
    [cmd |-> 0, command |-> None, guild |-> None, channel |-> None,
     author |-> None, me |-> None, todo |-> <<>>, last |-> NoEntry,
     kwargs |-> {}, options |-> {}, bound |-> FALSE]

NoOutcome == [error |-> "none", hooked |-> FALSE, raised |-> FALSE]

\* an exception leaves on_interaction_create
Raised(e) == [error |-> e, hooked |-> FALSE, raised |-> TRUE]
\* self.dispatch('command_error', ctx, exc)
Hooked(e) == [error |-> e, hooked |-> TRUE, raised |-> FALSE]

\* a bound value: the raw value, or what an entity option resolved to
Raw(v)       == [kind |-> "raw", v |-> v]
Entity(k, v) == [kind |-> k, v |-> v]

(***************************************************************************)
(* SlashBot.on_interaction_create, lines 921-937: find the command.        *)
(* discord.utils.get returns the first element of the set that matches,    *)
(* and a set has no order: any matching element may be the one.            *)
(***************************************************************************)
ById(e)        == {o \in DOMAIN cmds : cmds[o].id = e.id}
ByNameGuild(e) == {o \in DOMAIN cmds :
                      cmds[o].name = e.name /\ cmds[o].guild_id = e.guild_id}
ByName(e)      == {o \in DOMAIN cmds : cmds[o].name = e.name}

\* the candidates of the lookup, or the error that ends it
Lookup(e) ==
    IF ById(e) # {} THEN [found |-> ById(e), error |-> "none"]
    ELSE IF e.guild_id = None
    THEN \* event['guild_id'] on an event that carries no guild_id
         [found |-> {}, error |-> "KeyError"]
    ELSE IF ByNameGuild(e) # {} THEN [found |-> ByNameGuild(e), error |-> "none"]
    ELSE IF ByName(e) # {} THEN [found |-> ByName(e), error |-> "none"]
    ELSE [found |-> {}, error |-> "CommandNotFound"]

Receive(e) ==
    /\ pc = "idle"
    /\ event' = e
    /\ try' = <<>>
    /\ log' = <<>>
    /\ LET l == Lookup(e) IN
         IF l.error # "none"
         THEN /\ pc' = "done"
              /\ ctx' = NoCtx
              /\ outcome' = Raised(l.error)
         ELSE \E o \in l.found :
              /\ pc' = "guild"
              /\ ctx' = [NoCtx EXCEPT !.cmd = o, !.command = cmds[o].name]
              /\ outcome' = NoOutcome
    /\ UNCHANGED <<botVars, syncVars, auxVars>>

(***************************************************************************)
(* Context.__init__, lines 229-246: guild, channel, author.                *)
(***************************************************************************)
InitGuild(get, fetch) ==
    /\ pc = "guild"
    /\ IF event.guild_id # None
       THEN LET t == TryRec("guild", DefaultFq, DefaultFng, get, fetch,
                            FALSE, FALSE, "ok")
            IN  /\ try' = <<t>>
                /\ ctx' = [ctx EXCEPT !.guild =
                              IF t.value = "default" THEN "Object" ELSE "Guild"]
       ELSE /\ try' = <<>>
            /\ ctx' = [ctx EXCEPT !.guild = None]
    /\ pc' = "channel"
    /\ UNCHANGED <<event, log, outcome, botVars, syncVars, auxVars>>

InitChannel(get, fetch) ==
    /\ pc = "channel"
    /\ LET t == TryRec("channel", DefaultFq, DefaultFng, get, fetch,
                       FALSE, FALSE, "ok")
       IN  /\ try' = <<t>>
           /\ ctx' = [ctx EXCEPT !.channel =
                         IF t.value = "default" THEN "Object" ELSE "Channel"]
    /\ pc' = "author"
    /\ UNCHANGED <<event, log, outcome, botVars, syncVars, auxVars>>

InitAuthor(get, fetch) ==
    /\ pc = "author"
    /\ IF event.member
       THEN LET t == TryRec("author-member", DefaultFq, DefaultFng, get, fetch,
                            FALSE, FALSE, "ok")
            IN  /\ try' = <<t>>
                /\ ctx' = [ctx EXCEPT
                            !.author = IF t.value = "default"
                                       THEN "PartialMember" ELSE "Member",
                            !.todo = event.options]
       ELSE /\ try' = <<>>
            /\ ctx' = [ctx EXCEPT !.author = None, !.todo = event.options]
    /\ pc' = "bind"
    /\ UNCHANGED <<event, log, outcome, botVars, syncVars, auxVars>>

(***************************************************************************)
(* Context._kwargs_from_options, lines 261-345.  The recursion is tail     *)
(* recursion (every recursive call is followed by a return or by the end   *)
(* of the function), so one frame is kept: ctx.todo is what is left of the *)
(* options list being iterated, ctx.last the loop variable  opt  (NoEntry  *)
(* while it is unbound), ctx.kwargs the frame's kwargs.                    *)
(***************************************************************************)
\* a binder that matches the entry's name against the parameter names
ParamsKeyed(cmd, name) ==
    {k \in DOMAIN Options(cmd) : k = name}

\* lines 267-273: the parameter whose declared Option name is the entry's name
ParamsNamed(cmd, name) ==
    {k \in DOMAIN Options(cmd) : Options(cmd)[k].name = name}

\* lines 285-300: a USER option, member first, then user
BindUser(id, get, fetch) ==
    LET t1 == TryRec("member", DefaultFq, DefaultFng, get, fetch, TRUE,
                     id \in event.resolved.members,
                     \* resolve_member reads resolved['users'][str(value.id)]
                     IF id \in event.resolved.users THEN "ok" ELSE "KeyError")
        t2 == TryRec("user", FALSE, DefaultFng, "nofn", "nofn", TRUE,
                     id \in event.resolved.users, "ok")
    IN  IF t1.error # "none"
        THEN [tries |-> <<t1>>, error |-> t1.error, value |-> Raw(id)]
        ELSE IF t1.value \in {"cached", "fetched"}
        THEN [tries |-> <<t1>>, error |-> "none", value |-> Entity("Member", id)]
        ELSE IF t1.value = "partial"
        THEN [tries |-> <<t1>>, error |-> "none", value |-> Entity("PartialMember", id)]
        ELSE \* type(value) is discord.Object
             IF t2.error # "none"
             THEN [tries |-> <<t1, t2>>, error |-> t2.error, value |-> Raw(id)]
             ELSE IF t2.value = "partial"
             THEN [tries |-> <<t1, t2>>, error |-> "none", value |-> Entity("User", id)]
             ELSE [tries |-> <<t1, t2>>, error |-> "none", value |-> Entity("Object", id)]

\* lines 301-323: a CHANNEL option
BindChannel(id, get, fetch) ==
    LET t == TryRec("channel", DefaultFq, DefaultFng, get, fetch, TRUE,
                    id \in event.resolved.channels, "ok")
    IN  [tries |-> <<t>>, error |-> t.error,
         value |-> IF t.value \in {"cached", "fetched"} THEN Entity("Channel", id)
                   ELSE IF t.value = "partial" THEN Entity("PartialChannel", id)
                   ELSE Entity("Object", id)]

\* lines 324-334: a ROLE option (no fetch method, fng=False)
BindRole(id, get) ==
    LET t == TryRec("role", DefaultFq, FALSE, get, "nofn", TRUE,
                    id \in event.resolved.roles, "ok")
    IN  [tries |-> <<t>>, error |-> t.error,
         value |-> IF t.value \in {"cached", "fetched"} THEN Entity("Role", id)
                   ELSE IF t.value = "partial" THEN Entity("PartialRole", id)
                   ELSE Entity("Object", id)]

\* lines 274-334: the value an entry binds to, by the declared type
BindValue(type, v, get, fetch) ==
    IF type = "USER" THEN BindUser(v, get, fetch)
    ELSE IF type = "CHANNEL" THEN BindChannel(v, get, fetch)
    ELSE IF type = "ROLE" THEN BindRole(v, get)
    ELSE [tries |-> <<>>, error |-> "none", value |-> Raw(v)]

\* kwargs[k] = v
SetKwarg(kwargs, k, v) == {kv \in kwargs : kv[1] # k} \cup {<<k, v>>}

\* the handler ends with an exception nothing catches
Escape(e) ==
    /\ pc' = "done"
    /\ outcome' = Raised(e)

\* a binder that takes an entry without nested entries for the terminal one
DescendOnValues(name, opts) ==
    IF opts = <<>>
    THEN /\ ctx' = [ctx EXCEPT
                      !.options = SetKwarg(ctx.kwargs, CtxArg(ctx.command),
                                           Entity("Context", "")),
                      !.bound = TRUE]
         /\ pc' = "me"
         /\ outcome' = outcome
    ELSE IF name \notin Children(ctx.command)
    THEN Escape("KeyError") /\ ctx' = ctx
    ELSE /\ ctx' = [ctx EXCEPT !.command = name, !.todo = opts,
                                !.last = NoEntry, !.kwargs = {}]
         /\ pc' = "bind"
         /\ outcome' = outcome

\* self.command = self.command.slash[name], then the recursive call
Descend(name, opts) ==
    IF ~IsGroup(ctx.command)
    THEN Escape("AttributeError") /\ ctx' = ctx
    ELSE IF name \notin Children(ctx.command)
    THEN Escape("KeyError") /\ ctx' = ctx
    ELSE /\ ctx' = [ctx EXCEPT !.command = name, !.todo = opts,
                                !.last = NoEntry, !.kwargs = {}]
         /\ pc' = "bind"
         /\ outcome' = outcome

Bind(get, fetch) ==
    /\ pc = "bind"
    /\ IF ctx.todo # <<>>
       THEN LET opt == Head(ctx.todo) IN
            IF opt.kind = "value"
            THEN LET ks == ParamsNamed(ctx.command, opt.name) IN
                 IF ks = {}
                 THEN \* raise commands.CommandInvokeError('No such option')
                      /\ Escape("CommandInvokeError")
                      /\ ctx' = ctx
                      /\ try' = <<>>
                 ELSE \E k \in ks :
                      LET b == BindValue(Options(ctx.command)[k].type,
                                         opt.value, get, fetch)
                      IN  /\ try' = b.tries
                          /\ IF b.error # "none"
                             THEN Escape(b.error) /\ ctx' = ctx
                             ELSE /\ ctx' = [ctx EXCEPT
                                       !.kwargs = SetKwarg(ctx.kwargs, k, b.value),
                                       !.todo = Tail(ctx.todo), !.last = opt]
                                  /\ pc' = "bind"
                                  /\ outcome' = outcome
            ELSE IF opt.kind = "options"
            THEN Descend(opt.name, opt.options) /\ try' = <<>>
            ELSE \* neither 'value' nor 'options': the loop moves on
                 /\ ctx' = [ctx EXCEPT !.todo = Tail(ctx.todo), !.last = opt]
                 /\ pc' = "bind"
                 /\ outcome' = outcome
                 /\ try' = <<>>
       ELSE \* lines 340-345, after the loop
            /\ try' = <<>>
            /\ IF IsGroup(ctx.command)
               THEN IF ctx.last = NoEntry
                    THEN \* opt was never bound
                         Escape("UnboundLocalError") /\ ctx' = ctx
                    ELSE Descend(ctx.last.name, ctx.last.options)
               ELSE /\ ctx' = [ctx EXCEPT
                         !.options = SetKwarg(ctx.kwargs, CtxArg(ctx.command),
                                              Entity("Context", "")),
                         !.bound = TRUE]
                    /\ pc' = "me"
                    /\ outcome' = outcome
    /\ UNCHANGED <<event, log, botVars, syncVars, auxVars>>

\* Context.__init__, lines 256-259
InitMe(get, fetch) ==
    /\ pc = "me"
    /\ LET t == TryRec("me-member", DefaultFq, DefaultFng, get, fetch,
                       FALSE, FALSE, "ok")
       IN  /\ try' = <<t>>
           /\ ctx' = [ctx EXCEPT !.me =
                         IF t.value = "default" THEN "Object" ELSE "Member"]
    /\ pc' = "can_run"
    /\ UNCHANGED <<event, log, outcome, botVars, syncVars, auxVars>>

(***************************************************************************)
(* Command.can_run, lines 722-742.  A check is [kind, who]: a Group's or   *)
(* Command's own _check, a cog's cog_check, or one of the bot's global     *)
(* checks (commands.Bot._checks, in registration order).                   *)
(***************************************************************************)
Check(kind, who) == [kind |-> kind, who |-> who]

GlobalChecks == <<Check("global", "first"), Check("global", "second")>>

RECURSIVE Reverse(_)
Reverse(s) == IF s = <<>> THEN <<>> ELSE Append(Reverse(Tail(s)), Head(s))

InSeq(x, s) == \E i \in 1..Len(s) : s[i] = x

\* lines 725-734: the while loop from  parent  upwards; parents and cogs
\* are the two lists as the loop leaves them
RECURSIVE WalkChecks(_, _, _)
WalkChecks(parent, parents, cogs) ==
    IF parent = None THEN [parents |-> parents, cogs |-> cogs]
    ELSE IF NodeCog(parent) # None
    THEN WalkChecks(Parent(parent),
                    Append(parents, Check("group", parent)),
                    IF NodeCog(parent) = "checked"
                       /\ ~InSeq(Check("cog", NodeCog(parent)), cogs)
                    THEN Append(cogs, Check("cog", NodeCog(parent)))
                    ELSE cogs)
    ELSE WalkChecks(Parent(parent), Append(parents, Check("group", parent)), cogs)

\* can_run without line 737: the list is never reversed
CheckChainUnreversed(cmd) ==
    LET w == WalkChecks(Parent(cmd), <<>>, <<>>)
    IN  Append(w.parents \o w.cogs \o GlobalChecks, Check("own", cmd))

\* lines 723-738: the list  parents  that the for loop iterates
CheckChain(cmd) ==
    LET w == WalkChecks(Parent(cmd), <<>>, <<>>)
    IN  Append(Reverse(w.parents \o w.cogs \o GlobalChecks), Check("own", cmd))

\* can_run whose loop keeps only the last check's result
RECURSIVE RunChecksLast(_, _, _)
RunChecksLast(chain, results, done) ==
    IF chain = <<>> THEN [ok |-> TRUE, log |-> done]
    ELSE LET c == Head(chain)
             entry == [op |-> "check", kind |-> c.kind, who |-> c.who,
                       res |-> IF results[c] THEN "pass" ELSE "False"]
         IN  IF Tail(chain) = <<>>
             THEN [ok |-> results[c], log |-> Append(done, entry)]
             ELSE RunChecksLast(Tail(chain), results, Append(done, entry))

\* lines 739-742: evaluate in order, stop at the first False;
\* results[c] is FALSE when check c returns False
RECURSIVE RunChecks(_, _, _)
RunChecks(chain, results, done) ==
    IF chain = <<>> THEN [ok |-> TRUE, log |-> done]
    ELSE LET c == Head(chain)
             entry == [op |-> "check", kind |-> c.kind, who |-> c.who,
                       res |-> IF results[c] THEN "pass" ELSE "False"]
         IN  IF ~results[c]
             THEN [ok |-> FALSE, log |-> Append(done, entry)]
             ELSE RunChecks(Tail(chain), results, Append(done, entry))

ChainSet(cmd) == {CheckChain(cmd)[i] : i \in 1..Len(CheckChain(cmd))}

\* Command.invoke, lines 704-706
CanRun(results) ==
    /\ pc = "can_run"
    /\ LET r == RunChecks(CheckChain(ctx.command), results, <<>>) IN
         /\ log' = r.log
         /\ IF r.ok
            THEN pc' = "invoke" /\ outcome' = outcome
            ELSE \* raise commands.CheckFailure; except commands.CommandError
                 pc' = "done" /\ outcome' = Hooked("CheckFailure")
    /\ UNCHANGED <<event, ctx, try, botVars, syncVars, auxVars>>

(***************************************************************************)
(* Command.invoke lines 707-714 and Command.invoke_parents, with the       *)
(* except clauses of on_interaction_create, lines 938-948.                 *)
(***************************************************************************)
\* invoke_parents without line 753: the list is never reversed
RECURSIVE AncestorsUnreversed(_)
AncestorsUnreversed(n) ==
    IF Parent(n) = None THEN <<>> ELSE <<Parent(n)>> \o AncestorsUnreversed(Parent(n))

\* lines 745-753: the ancestors' callbacks, outermost first
RECURSIVE Ancestors(_)
Ancestors(n) ==
    IF Parent(n) = None THEN <<>> ELSE Append(Ancestors(Parent(n)), Parent(n))

\* lines 754-755: call each, stop at the first that raises
RECURSIVE RunHooks(_, _, _)
RunHooks(hooks, hres, done) ==
    IF hooks = <<>> THEN [ok |-> TRUE, log |-> done]
    ELSE LET entry == [op |-> "hook", kind |-> "group", who |-> Head(hooks),
                       res |-> hres[Head(hooks)]]
         IN  IF hres[Head(hooks)] # "ok"
             THEN [ok |-> FALSE, log |-> Append(done, entry)]
             ELSE RunHooks(Tail(hooks), hres, Append(done, entry))

HookResults == {"ok", "raise"}
BodyResults == {"ok", "raise", "cancel"}

Invoke(hres, body) ==
    /\ pc = "invoke"
    /\ pc' = "done"
    /\ IF ctx.author = None \/ ctx.guild = None
       THEN \* line 707: ctx.author.id, ctx.guild.id of None
            /\ log' = log
            /\ outcome' = Hooked("CommandInvokeError")
       ELSE LET h == RunHooks(Ancestors(ctx.command), hres, <<>>) IN
            IF ~h.ok
            THEN /\ log' = log \o h.log
                 /\ outcome' = Hooked("CommandInvokeError")
            ELSE /\ log' = log \o h.log \o
                            <<[op |-> "body", kind |-> "own",
                               who |-> ctx.command, res |-> body]>>
                 /\ outcome' =
                        IF body = "ok" THEN NoOutcome
                        ELSE IF body = "cancel"
                        THEN \* except asyncio.CancelledError: return
                             [error |-> "CancelledError", hooked |-> FALSE,
                              raised |-> FALSE]
                        ELSE Hooked("CommandInvokeError")
    /\ UNCHANGED <<event, ctx, try, botVars, syncVars, auxVars>>

\* the handler has returned: its Context is discarded
Discard ==
    /\ pc = "done"
    /\ pc' = "idle"
    /\ event' = NoEvent
    /\ ctx' = NoCtx
    /\ try' = <<>>
    /\ log' = <<>>
    /\ outcome' = NoOutcome
    /\ UNCHANGED <<botVars, syncVars, auxVars>>

(***************************************************************************)
(* The reconciler.  A serialized command is a dict: a function whose       *)
(* domain is the set of keys it has.  The platform keeps, per scope, the   *)
(* dicts it was sent, each with the id it gave it.                         *)
(***************************************************************************)
Scopes == {None, "g1"}

\* Command.to_dict, lines 691-701: 'options' only when there are options
ToDict(c) ==
    IF c.options # <<>>
    THEN [name |-> c.name, description |-> c.description, options |-> c.options]
    ELSE [name |-> c.name, description |-> c.description]

\* d.get(k, ...) == e.get(k, ...), line 1002: a missing key reads as Ellipsis,
\* which equals nothing but itself
SameAt(d, e, k) ==
    /\ (k \in DOMAIN d) = (k \in DOMAIN e)
    /\ k \in DOMAIN d => d[k] = e[k]

\* up_to_date that leaves the description out of the comparison
UpToDateSansDescription(done, cmd_dict) ==
    \A k \in {"name", "options"} : SameAt(done, cmd_dict, k)

\* lines 1002-1003
UpToDate(done, cmd_dict) ==
    \A k \in {"name", "description", "options"} : SameAt(done, cmd_dict, k)

\* a payload that keeps its name
KeepName(d) == d

\* cmd_dict.pop('name'), line 1008
PopName(d) == [k \in DOMAIN d \ {"name"} |-> d[k]]

\* line 990: done = {data['name']: data for data in done}
DoneNames(done) == {d.name : d \in done}
DoneOf(done, name) == CHOOSE d \in done : d.name = name

\* to_delete without the subtraction of the local names
ToDeleteAll(todo, done) == DoneNames(done)

\* to_create without the subtraction of the remote names
ToCreateAll(todo, done) == DOMAIN todo

\* lines 992-996
ToDelete(todo, done) == DoneNames(done) \ DOMAIN todo
ToUpdate(todo, done) == DoneNames(done) \cap DOMAIN todo
ToCreate(todo, done) == DOMAIN todo \ DoneNames(done)

\* the queued operations, lines 997-1014
PostOp(g, name, c, o) ==
    [method |-> "POST", guild_id |-> g, name |-> name, json |-> ToDict(c), cmd |-> o]
PatchOp(g, name, c, o, id) ==
    [method |-> "PATCH", guild_id |-> g, name |-> name, json |-> PopName(ToDict(c)),
     id |-> id, cmd |-> o]
DeleteOp(g, name, id) ==
    [method |-> "DELETE", guild_id |-> g, name |-> name, id |-> id]

\* state[method][name] = ... : the queues keyed by name alone
QueueByName(st, ops) ==
    {q \in st : ~\E p \in ops : p.method = q.method /\ p.name = q.name}
    \cup ops

\* state[method].setdefault(guild_id, {})[name] = ... : one entry per key
Queue(st, ops) ==
    {q \in st : ~\E p \in ops : p.method = q.method /\ p.guild_id = q.guild_id
                                /\ p.name = q.name}
    \cup ops

\* the names of to_update the loop of lines 1000-1011 queues a PATCH for
Stale(todo, done) ==
    {n \in ToUpdate(todo, done) : ~UpToDate(DoneOf(done, n), ToDict(cmds[todo[n]]))}

\* SlashBot.sync_cmds: the state it leaves
SyncState(st, todo, done, g) ==
    Queue(st,
          {PostOp(g, n, cmds[todo[n]], todo[n]) : n \in ToCreate(todo, done)}
          \cup {PatchOp(g, n, cmds[todo[n]], todo[n], DoneOf(done, n).id) :
                    n \in Stale(todo, done)}
          \cup {DeleteOp(g, n, DoneOf(done, n).id) : n \in ToDelete(todo, done)})

\* SlashBot.sync_cmds, lines 1004-1006: todo[name].id = int(done[name]['id'])
SyncIds(todo, done) ==
    [o \in DOMAIN cmds |->
        IF \E n \in ToUpdate(todo, done) \ Stale(todo, done) : todo[n] = o
        THEN [cmds[o] EXCEPT !.id = DoneOf(done, cmds[o].name).id]
        ELSE cmds[o]]

\* what the model remembers of a sync_cmds call
SyncRec(todo, done, g) ==
    [called |-> TRUE, guild_id |-> g, local |-> DOMAIN todo,
     remote |-> DoneNames(done),
     create |-> ToCreate(todo, done), update |-> ToUpdate(todo, done),
     delete |-> ToDelete(todo, done), stale |-> Stale(todo, done)]

NoSync ==
    [called |-> FALSE, guild_id |-> None, local |-> {}, remote |-> {},
     create |-> {}, update |-> {}, delete |-> {}, stale |-> {}]

(***************************************************************************)
(* The platform's registration endpoints, as the reconciler uses them:     *)
(* POST stores the dict under a fresh id, PATCH overwrites the keys the    *)
(* payload carries (the reconciler relies on this: it omits the name and   *)
(* expects it kept), DELETE removes the command with the id.               *)
(***************************************************************************)
Merge(old, new) ==
    [k \in DOMAIN old \cup DOMAIN new |-> IF k \in DOMAIN new THEN new[k] ELSE old[k]]

RemotePost(rem, g, json, id) ==
    [rem EXCEPT ![g] = {d \in @ : d.name # json.name} \cup {Merge([id |-> id], json)}]

RemotePatch(rem, g, id, json) ==
    [rem EXCEPT ![g] = {IF d.id = id THEN Merge(d, json) ELSE d : d \in @}]

RemoteDelete(rem, g, id) ==
    [rem EXCEPT ![g] = {d \in @ : d.id # id}]

(***************************************************************************)
(* SlashBot.register_commands, lines 950-985.                              *)
(***************************************************************************)
\* line 956 without the "cmd.guild_id or": every command gets debug_guild
RescopedAll ==
    [o \in DOMAIN cmds |-> [cmds[o] EXCEPT !.guild_id = flags.debug_guild]]

\* line 956: cmd.guild_id = cmd.guild_id or self.debug_guild
Rescoped ==
    [o \in DOMAIN cmds |->
        [cmds[o] EXCEPT !.guild_id = IF @ = None THEN flags.debug_guild ELSE @]]

\* line 957: guilds.setdefault(cmd.guild_id, {})[cmd.name] = cmd, for cmd in
\* self.slash.  A set has no order: of several commands with one scope and
\* name, any may be the last written.  The result for every such choice:
GuildKeys(cs) == {<<cs[o].guild_id, cs[o].name>> : o \in DOMAIN cs}

GuildsBuilt(cs) ==
    {[g \in {k[1] : k \in GuildKeys(cs)} |->
         [n \in {k[2] : k \in {x \in GuildKeys(cs) : x[1] = g}} |-> w[<<g, n>>]]] :
     w \in {f \in [GuildKeys(cs) -> DOMAIN cs] :
                \A k \in GuildKeys(cs) :
                    cs[f[k]].guild_id = k[1] /\ cs[f[k]].name = k[2]}}

\* lines 964-972: the global scope first, then the others in the dict's order
ScopeOrders(gs) ==
    LET tenants == DOMAIN gs \ {None}
        n == Cardinality(tenants)
        perms == {p \in [1..n -> tenants] : \A i, j \in 1..n : p[i] = p[j] => i = j}
    IN  {(IF None \in DOMAIN gs THEN <<None>> ELSE <<>>) \o p : p \in perms}

\* the final loop running over state['POST'] only
IssuePostsOnly(st) == {q \in st : q.method = "POST"}

\* lines 974-985: one task per queued operation
IssueTasks(st) == st

\* lines 950-962, up to the first GET; ok is whether application_info succeeds
RegBegin(limit, ok) ==
    /\ rpc \in {"idle", "returned"}
    /\ tasks = {}
    /\ runs < limit
    /\ runs' = runs + 1
    /\ IF ~ok
       THEN \* discord.HTTPException leaves register_commands; on_ready closes
            /\ rpc' = "failed"
            /\ UNCHANGED <<cmds, guilds, todoScopes, state, tasks, settled, sync>>
       ELSE /\ cmds' = Rescoped
            /\ guilds' \in {gs \in GuildsBuilt(Rescoped) :
                               \* the set is not modified between two runs, so
                               \* a second run iterates it in the same order
                               runs = 0 \/ gs = guilds}
            /\ todoScopes' \in ScopeOrders(guilds')
            /\ state' = {}
            /\ settled' = {}
            /\ sync' = NoSync
            /\ tasks' = {}
            /\ rpc' = IF DOMAIN guilds' = {} THEN "returned" ELSE "listing"
    /\ UNCHANGED <<flags, remote, nextId, evVars, auxVars>>

\* lines 963-985: GET one scope and sync it; after the last scope, issue the
\* tasks and return.  ok is whether the GET succeeds.
RegList(ok) ==
    /\ rpc = "listing"
    /\ todoScopes # <<>>
    /\ LET g    == Head(todoScopes)
           todo == guilds[g]
           done == remote[g]
       IN  IF ~ok
           THEN \* discord.HTTPException leaves register_commands
                /\ rpc' = "failed"
                /\ UNCHANGED <<cmds, todoScopes, state, tasks, sync>>
           ELSE /\ state' = SyncState(state, todo, done, g)
                /\ cmds' = SyncIds(todo, done)
                /\ sync' = SyncRec(todo, done, g)
                /\ todoScopes' = Tail(todoScopes)
                /\ IF Tail(todoScopes) = <<>>
                   THEN rpc' = "returned" /\ tasks' = IssueTasks(state')
                   ELSE rpc' = "listing" /\ tasks' = tasks
    /\ UNCHANGED <<flags, remote, nextId, guilds, settled, runs, evVars, auxVars>>

(***************************************************************************)
(* SlashBot.process_command, lines 1016-1026: one task settles.            *)
(***************************************************************************)
\* lines 976-984: the route of a queued operation is its method and the
\* collection path of its scope, followed by the id when kwargs has one
Route(q) ==
    [method |-> q.method, guild_id |-> q.guild_id,
     id |-> IF "id" \in DOMAIN q THEN <<q.id>> ELSE <<>>]

\* the platform has the command the route of a PATCH or DELETE addresses
Addressed(t) ==
    \/ Route(t).method = "POST"
    \/ \E d \in remote[Route(t).guild_id] : <<d.id>> = Route(t).id

\* the platform after the request of task t succeeded
Applied(t) ==
    IF Route(t).method = "POST"
    THEN RemotePost(remote, Route(t).guild_id, t.json, nextId)
    ELSE IF Route(t).method = "PATCH"
    THEN RemotePatch(remote, Route(t).guild_id, Route(t).id[1], t.json)
    ELSE RemoteDelete(remote, Route(t).guild_id, Route(t).id[1])

\* lines 1025-1026: cmd.id = int(data['id'])
WithId(t) ==
    IF t.method = "DELETE" THEN cmds
    ELSE [cmds EXCEPT ![t.cmd].id = IF t.method = "POST" THEN nextId ELSE t.id]

\* a failed request that cancels the tasks still in flight
AbandonedWithSiblings(t) == {}

\* what a failed request leaves behind: the exception is logged, no more
Abandoned(t) == tasks \ {t}

TaskSettle(t, ok) ==
    /\ t \in tasks
    /\ IF ok /\ Addressed(t)
       THEN /\ remote' = Applied(t)
            /\ nextId' = IF t.method = "POST" THEN nextId + 1 ELSE nextId
            /\ cmds' = WithId(t)
            /\ tasks' = tasks \ {t}
            /\ settled' = settled \cup {[op |-> t, ok |-> TRUE]}
       ELSE /\ tasks' = Abandoned(t)
            /\ settled' = settled \cup {[op |-> t, ok |-> FALSE]}
            /\ UNCHANGED <<remote, nextId, cmds>>
    /\ UNCHANGED <<flags, rpc, guilds, todoScopes, state, sync, runs, evVars, auxVars>>

(***************************************************************************)
(* Command.__init__, lines 630-676, as a function of the callback: whether *)
(* it has a description (a name= or description= argument or a docstring)  *)
(* and its parameters in order, each with what its annotation is           *)
(* ("Context": Context or a subclass, "Option": an Option instance,        *)
(* "other": anything else or none) and whether it has a default.           *)
(***************************************************************************)
MaxParams == 3

ParamKinds == {"Context", "Option", "other"}

\* the parameters' names, by position
ParamName(i) == <<"a", "b", "c", "d", "e">>[i]

Signatures ==
    [description : BOOLEAN,
     params : UNION {[1..n -> [annotation : ParamKinds, default : BOOLEAN]] :
                        n \in 0..MaxParams}]

BuildResult(e, c, o) == [done |-> TRUE, error |-> e, ctx_arg |-> c, options |-> o]

NotBuilt == [done |-> FALSE, error |-> "none", ctx_arg |-> None, options |-> {}]

\* lines 642-671: the loop over signature(coro).parameters, from the i-th on
RECURSIVE ScanParams(_, _, _, _)
ScanParams(params, i, ctx_arg, options) ==
    IF i > Len(params) THEN BuildResult("none", ctx_arg, options)
    ELSE LET p == params[i] IN
         IF p.annotation \notin {"Option", "Context"} /\ ~p.default
         THEN \* a required argument with no valid annotation
              BuildResult("TypeError", ctx_arg, options)
         ELSE ScanParams(params, i + 1,
                         IF p.annotation = "Context" THEN ParamName(i) ELSE ctx_arg,
                         IF p.annotation = "Option"
                         THEN options \cup {[name |-> ParamName(i),
                                             required |-> ~p.default]}
                         ELSE options)

\* Command(coro): the error that leaves __init__, or the command's fields
NewCommand(s) ==
    IF ~s.description THEN BuildResult("ValueError", None, {})
    ELSE LET r == ScanParams(s.params, 1, None, {}) IN
         IF r.error # "none" THEN r
         ELSE IF r.ctx_arg = None
         THEN \* 'One argument must be type-hinted slash.Context'
              BuildResult("ValueError", None, r.options)
         ELSE r

DefIdle ==
    /\ sig = [description |-> TRUE, params |-> <<>>]
    /\ built = NotBuilt

\* slash.cmd()(coro) / SlashBot.slash_cmd()(coro)
Construct ==
    /\ ~built.done
    /\ built' = NewCommand(sig)
    /\ UNCHANGED <<sig, respVars, botVars, evVars, syncVars>>

\* the next callback to be decorated
Declare(s) ==
    /\ built.done
    /\ sig' = s
    /\ built' = NotBuilt
    /\ UNCHANGED <<respVars, botVars, evVars, syncVars>>

(***************************************************************************)
(* Context.respond, lines 412-484, and Context.delete, lines 486-492, on   *)
(* one Context (ctx.guild is None for an event without guild_id).          *)
(* InteractionResponseType, lines 100-134:                                 *)
(***************************************************************************)
Acknowledge                      == 2
ChannelMessage                   == 3
ChannelMessageWithSource         == 4
DeferredChannelMessageWithSource == 5

ResponseTypes == {Acknowledge, ChannelMessage, ChannelMessageWithSource,
                  DeferredChannelMessageWithSource}

MaxCalls == 3

\* a respond that folds the deprecated kinds into their successors
FoldedType(rtype) ==
    IF rtype = Acknowledge THEN ChannelMessageWithSource
    ELSE IF rtype = ChannelMessage THEN DeferredChannelMessageWithSource
    ELSE rtype

\* line 465: 'type': int(rtype)
CallbackType(rtype) == rtype

\* a respond that never records the webhook
NoWebhook == None

\* lines 481-483: discord.Webhook.partial(...)
PartialWebhook == "Webhook"

\* lines 464-480: the callback request
CallbackRequest(content, hasEmbeds, rtype) ==
    [method |-> "POST", path |-> "callback", type |-> CallbackType(rtype),
     hasData |-> (content # "" \/ hasEmbeds), content |-> content,
     embeds |-> hasEmbeds]

\* lines 453-463: the edit of the original response
EditRequest(content, hasEmbeds) ==
    [method |-> "PATCH", path |-> "@original", content |-> content,
     embeds |-> hasEmbeds]

\* lines 487-491
DeleteRequest == [method |-> "DELETE", path |-> "@original"]

\* lines 433-483: what a respond call does up to the request: the error that
\* ends it, or the request it issues and the webhook it leaves.  guild.id is
\* read when the route is built, in either branch.
RespondPlan(w, guild, content, embed, embeds, rtype) ==
    IF embed /\ embeds
    THEN [error |-> "TypeError", webhook |-> w, request |-> <<>>]
    ELSE IF w # None
    THEN IF guild = None
         THEN [error |-> "AttributeError", webhook |-> w, request |-> <<>>]
         ELSE [error |-> "none", webhook |-> w,
               request |-> <<EditRequest(content, embed \/ embeds)>>]
    ELSE IF content = "" /\ ~(embed \/ embeds) /\ rtype = ChannelMessageWithSource
    THEN [error |-> "ValueError", webhook |-> w, request |-> <<>>]
    ELSE IF guild = None
    THEN [error |-> "AttributeError", webhook |-> w, request |-> <<>>]
    ELSE [error |-> "none", webhook |-> PartialWebhook,
          request |-> <<CallbackRequest(content, embed \/ embeds, rtype)>>]

\* lines 433-439: the deprecated kinds
Deprecated(rtype) == rtype \in {Acknowledge, ChannelMessage}

RespIdle ==
    /\ webhook = None
    /\ sent = <<>>
    /\ warnings = <<>>
    /\ history = <<>>

\* one call of ctx.respond; ok is whether the request succeeds
Respond(content, embed, embeds, rtype, ok) ==
    /\ Len(history) < MaxCalls
    /\ LET plan == RespondPlan(webhook, ctx.guild, content, embed, embeds, rtype)
       IN  /\ warnings' = IF Deprecated(rtype) THEN Append(warnings, rtype)
                          ELSE warnings
           /\ webhook' = plan.webhook
           /\ sent' = sent \o plan.request
           /\ history' = Append(history,
                  [op |-> "respond", rtype |-> rtype,
                   req |-> IF plan.request = <<>> THEN 0 ELSE Len(sent) + 1,
                   error |-> IF plan.error # "none" THEN plan.error
                             ELSE IF ok THEN "none" ELSE "HTTPException"])
    /\ UNCHANGED <<defVars, botVars, evVars, syncVars>>

\* a respond that assigns self.webhook only once the request has returned
WebhookAfterAwait(w, plan) == w

\* lines 481-484: self.webhook is assigned before the request is awaited
WebhookBeforeAwait(w, plan) == plan.webhook

\* a call of ctx.respond up to its only await, line 484: nothing in lines
\* 433-483 awaits, so under the event loop this part runs as one step
RespondCall(content, embed, embeds, rtype) ==
    /\ Len(history) < MaxCalls
    /\ LET plan == RespondPlan(webhook, ctx.guild, content, embed, embeds, rtype)
       IN  /\ warnings' = IF Deprecated(rtype) THEN Append(warnings, rtype)
                          ELSE warnings
           /\ webhook' = WebhookBeforeAwait(webhook, plan)
           /\ sent' = sent \o plan.request
           /\ history' = Append(history,
                  [op |-> "respond", rtype |-> rtype,
                   req |-> IF plan.request = <<>> THEN 0 ELSE Len(sent) + 1,
                   error |-> IF plan.error # "none" THEN plan.error
                             ELSE "pending"])
    /\ UNCHANGED <<defVars, botVars, evVars, syncVars>>

\* the request call k awaits ends; ok is whether it succeeded
RespondReturn(k, ok) ==
    /\ k \in 1..Len(history)
    /\ history[k].error = "pending"
    /\ history' = [history EXCEPT ![k].error = IF ok THEN "none"
                                               ELSE "HTTPException"]
    /\ UNCHANGED <<webhook, sent, warnings, defVars, botVars, evVars, syncVars>>

\* one call of ctx.delete
Delete(ok) ==
    /\ Len(history) < MaxCalls
    /\ IF ctx.guild = None
       THEN /\ sent' = sent
            /\ history' = Append(history, [op |-> "delete", rtype |-> 0, req |-> 0,
                                           error |-> "AttributeError"])
       ELSE /\ sent' = Append(sent, DeleteRequest)
            /\ history' = Append(history,
                   [op |-> "delete", rtype |-> 0, req |-> Len(sent) + 1,
                    error |-> IF ok THEN "none" ELSE "HTTPException"])
    /\ UNCHANGED <<webhook, warnings, defVars, botVars, evVars, syncVars>>

(***************************************************************************)
(* The dispatch specification: a bot whose tree is the one above, in any   *)
(* configuration, with each top-level command registered or not, handles   *)
(* one event after the other.                                              *)
(***************************************************************************)
Cmd(name, guild, id, description, options) ==
    [name |-> name, guild_id |-> guild, id |-> id,
     description |-> description, options |-> options]

CogKinds == {None, "plain", "checked"}

SyncIdle ==
    /\ rpc = "idle"
    /\ remote = [g \in {None, "g1"} |-> {}]
    /\ nextId = 1
    /\ guilds = <<>>
    /\ todoScopes = <<>>
    /\ state = {}
    /\ tasks = {}
    /\ settled = {}
    /\ sync = NoSync
    /\ runs = 0

EventIdle ==
    /\ pc = "idle"
    /\ event = NoEvent
    /\ ctx = NoCtx
    /\ try = <<>>
    /\ log = <<>>
    /\ outcome = NoOutcome

DispatchInit ==
    /\ \E i1 \in {NoId, GrpId}, i2 \in {NoId, SoloId} :
          cmds = [o \in {1, 2} |->
                    IF o = 1 THEN Cmd("grp", None, i1, "a group", <<"sub">>)
                    ELSE Cmd("solo", "g1", i2, "a command", <<"text">>)]
    /\ flags \in [resolve_not_fetch : BOOLEAN, fetch_if_not_get : BOOLEAN,
                   debug_guild : {None}, cog : CogKinds]
    /\ EventIdle
    /\ SyncIdle
    /\ DefIdle
    /\ RespIdle

DispatchNext ==
    \/ \E e \in Events : Receive(e)
    \/ \E get \in ClientGets, fetch \in Fetches : InitGuild(get, fetch)
    \/ \E get \in ClientGets, fetch \in Fetches : InitChannel(get, fetch)
    \/ \E get \in GuildGets(ctx.guild), fetch \in Fetches : InitAuthor(get, fetch)
    \/ \E get \in GuildGets(ctx.guild), fetch \in Fetches : Bind(get, fetch)
    \/ \E get \in GuildGets(ctx.guild), fetch \in Fetches : InitMe(get, fetch)
    \/ \E results \in [ChainSet(ctx.command) -> BOOLEAN] : CanRun(results)
    \/ \E hres \in [{"grp", "sub"} -> HookResults], body \in BodyResults :
          Invoke(hres, body)
    \/ Discard

SpecDispatch == DispatchInit /\ [][DispatchNext]_vars

(***************************************************************************)
(* The sync specification: a freshly started bot with up to MaxLocal       *)
(* top-level commands, a platform that already holds up to MaxRemote       *)
(* commands, and the one run of register_commands that on_ready starts.    *)
(***************************************************************************)
Descriptions   == {"d1", "d2"}
OptionLists    == {<<>>, <<"text">>}
RemoteVariants == [description : {"d1"}, options : OptionLists]

\* the (name, scope) pairs, in a fixed order
Keys == <<<<"grp", None>>, <<"grp", "g1">>, <<"solo", None>>, <<"misc", None>>>>
KeyRank(name, g) == CHOOSE i \in 1..Len(Keys) : Keys[i] = <<name, g>>

\* SlashBot.slash as slash_cmd/slash_group fill it: a set of commands, no two
\* with the same name and scope, each with id None
LocalRegistries ==
    UNION {{f \in [1..n -> {Cmd(Keys[i][1], Keys[i][2], NoId, d, o) :
                               i \in 1..Len(Keys), d \in Descriptions,
                               o \in OptionLists}] :
               \A a, b \in 1..n :
                  a < b => KeyRank(f[a].name, f[a].guild_id)
                           < KeyRank(f[b].name, f[b].guild_id)} :
           n \in 0..MaxLocal}

\* the platform before the run: commands with distinct ids, names unique
\* within a scope
RemoteDict(i, id, v) ==
    IF v.options # <<>>
    THEN [id |-> id, name |-> Keys[i][1], description |-> v.description,
          options |-> v.options]
    ELSE [id |-> id, name |-> Keys[i][1], description |-> v.description]

RemoteOf(R, v) ==
    [g \in Scopes |->
        {RemoteDict(i, Cardinality({j \in R : j <= i}), v[i]) :
            i \in {j \in R : Keys[j][2] = g}}]

SyncInit ==
    /\ cmds \in LocalRegistries
    /\ flags \in [resolve_not_fetch : {TRUE}, fetch_if_not_get : {FALSE},
                   debug_guild : Scopes, cog : {None}]
    /\ EventIdle
    /\ rpc = "idle"
    /\ \E R \in SUBSET (1..Len(Keys)) :
          /\ Cardinality(R) <= MaxRemote
          /\ \E v \in [R -> RemoteVariants] :
                /\ remote = RemoteOf(R, v)
                /\ nextId = Cardinality(R) + 1
    /\ guilds = <<>>
    /\ todoScopes = <<>>
    /\ state = {}
    /\ tasks = {}
    /\ settled = {}
    /\ sync = NoSync
    /\ runs = 0
    /\ DefIdle
    /\ RespIdle

\* on_ready removes itself (line 865): it starts register_commands once
SyncNext ==
    \/ \E ok \in BOOLEAN : RegBegin(1, ok)
    \/ \E ok \in BOOLEAN : RegList(ok)
    \/ \E t \in tasks, ok \in BOOLEAN : TaskSettle(t, ok)

SpecSync == SyncInit /\ [][SyncNext]_vars

\* register_commands called again once the first run's tasks have settled,
\* every request succeeding
ResyncNext ==
    \/ RegBegin(MaxRuns, TRUE)
    \/ RegList(TRUE)
    \/ \E t \in tasks : TaskSettle(t, TRUE)

SpecResync == SyncInit /\ [][ResyncNext]_vars

(***************************************************************************)
(* The live specification.  on_ready installs the INTERACTION_CREATE       *)
(* parser before it awaits register_commands (lines 863-874), so events    *)
(* are handled while the run lists the scopes and while its tasks are in   *)
(* flight.  The registry and the platform are those of the sync            *)
(* specification with commands without options; the caches answer, the     *)
(* checks pass and the callbacks return.                                   *)
(***************************************************************************)
LiveRegistries == {f \in LocalRegistries : \A i \in DOMAIN f : f[i].options = <<>>}

LiveInit ==
    /\ cmds \in LiveRegistries
    /\ flags \in [resolve_not_fetch : {TRUE}, fetch_if_not_get : {FALSE},
                   debug_guild : Scopes, cog : {None}]
    /\ EventIdle
    /\ rpc = "idle"
    /\ \E R \in SUBSET (1..Len(Keys)) :
          /\ Cardinality(R) <= MaxRemote
          /\ remote = RemoteOf(R, [i \in R |-> [description |-> "d1",
                                                options |-> <<>>]])
          /\ nextId = Cardinality(R) + 1
    /\ guilds = <<>>
    /\ todoScopes = <<>>
    /\ state = {}
    /\ tasks = {}
    /\ settled = {}
    /\ sync = NoSync
    /\ runs = 0
    /\ DefIdle
    /\ RespIdle

\* the ids under which the platform may hold command o: the id of the
\* command of its name in its scope, and, while the POST that creates it is
\* in flight, the id the platform gives it before the response is back
PlatformIds(o) ==
    {d.id : d \in {x \in remote[cmds[o].guild_id] : x.name = cmds[o].name}}
    \cup {nextId : t \in {x \in tasks : x.method = "POST" /\ x.cmd = o}}

\* where command o can be used: a guild command in its guild, a global one
\* in a direct message or in any guild
UsedIn(o) ==
    IF cmds[o].guild_id = None THEN {None, "g1"} ELSE {cmds[o].guild_id}

\* the events the platform may send for command o
EventsFor(o) ==
    {MkEvent(id, cmds[o].name, g, [options |-> <<>>, resolved |-> NoSnapshot]) :
        id \in PlatformIds(o), g \in UsedIn(o)}

LiveEvents == UNION {EventsFor(o) : o \in DOMAIN cmds}

LiveNext ==
    \/ \E ok \in BOOLEAN : RegBegin(1, ok)
    \/ \E ok \in BOOLEAN : RegList(ok)
    \/ \E t \in tasks, ok \in BOOLEAN : TaskSettle(t, ok)
    \/ \E e \in LiveEvents : Receive(e)
    \/ InitGuild("hit", "ok")
    \/ InitChannel("hit", "ok")
    \/ \E get \in GuildGets(ctx.guild) \ {"miss"} : InitAuthor(get, "ok")
    \/ \E get \in GuildGets(ctx.guild) \ {"miss"} : Bind(get, "ok")
    \/ \E get \in GuildGets(ctx.guild) \ {"miss"} : InitMe(get, "ok")
    \/ CanRun([c \in ChainSet(ctx.command) |-> TRUE])
    \/ Invoke([h \in {"grp", "sub"} |-> "ok"], "ok")
    \/ Discard

SpecLive == LiveInit /\ [][LiveNext]_vars

(***************************************************************************)
(* The build specification: callbacks of every shape up to MaxParams       *)
(* parameters are decorated, one after the other.                          *)
(***************************************************************************)
NoBot ==
    /\ cmds = <<>>
    /\ flags = [resolve_not_fetch |-> TRUE, fetch_if_not_get |-> FALSE,
                debug_guild |-> None, cog |-> None]

BuildInit ==
    /\ sig \in Signatures
    /\ built = NotBuilt
    /\ RespIdle
    /\ NoBot
    /\ EventIdle
    /\ SyncIdle

BuildNext ==
    \/ Construct
    \/ \E s \in Signatures : Declare(s)

SpecBuild == BuildInit /\ [][BuildNext]_vars

(***************************************************************************)
(* The respond specification: a command body holding a Context calls       *)
(* respond and delete up to MaxCalls times, with any arguments.            *)
(***************************************************************************)
Contents == {"", "hi"}

RespondInit ==
    /\ DefIdle
    /\ RespIdle
    /\ NoBot
    /\ pc = "invoke"
    /\ event = NoEvent
    /\ \E g \in {None, "Object", "Guild"} :
          ctx = [NoCtx EXCEPT !.command = "solo", !.guild = g,
                              !.channel = "Channel", !.bound = TRUE]
    /\ try = <<>>
    /\ log = <<>>
    /\ outcome = NoOutcome
    /\ SyncIdle

RespondNext ==
    \/ \E content \in Contents, embed \in BOOLEAN, embeds \in BOOLEAN,
          rtype \in ResponseTypes, ok \in BOOLEAN :
            Respond(content, embed, embeds, rtype, ok)
    \/ \E ok \in BOOLEAN : Delete(ok)

SpecRespond == RespondInit /\ [][RespondNext]_vars

\* the respond calls of one Context running as concurrent tasks: a call may
\* start while the requests of earlier calls are still awaited.  The calls
\* pass embed or not, content or not, and one of the two current kinds.
ConcurrentNext ==
    \/ \E content \in Contents, embed \in BOOLEAN,
          rtype \in {ChannelMessageWithSource, DeferredChannelMessageWithSource} :
            RespondCall(content, embed, FALSE, rtype)
    \/ \E k \in 1..MaxCalls, ok \in BOOLEAN : RespondReturn(k, ok)

SpecConcurrent == RespondInit /\ [][ConcurrentNext]_vars

(***************************************************************************)
(* Claims about entity resolution and dispatch, under SpecDispatch.        *)
(***************************************************************************)
Done == pc = "done"

\* the event addresses leaf with one USER option whose id is in neither
\* resolved['members'] nor resolved['users'], fetching is disabled, and the
\* command was found and descended to
C1_Scenario ==
    /\ event.options = LeafCall(<<ValueEntry("who", EntityId)>>)
    /\ event.resolved.members = {}
    /\ event.resolved.users = {}
    /\ ~flags.fetch_if_not_get
    /\ ctx.command = "leaf"
    /\ ctx.guild # "Guild"

\* C1: binding a USER option whose id is in neither the cache nor the
\* snapshot, with fetching disabled, binds the bare-id placeholder and
\* raises nothing; when the guards pass the callback runs with it.
C1_PlaceholderBound ==
    (Done /\ C1_Scenario) =>
        /\ ~outcome.raised
        /\ <<"who", Entity("Object", EntityId)>> \in ctx.options

\* C2: a _try_get call whose cache lookup returned an entity returns that
\* entity, and invokes neither the fetch accessor nor resolve_method.
C2_CacheHitWins ==
    \A i \in 1..Len(try) :
        try[i].get = "hit" => try[i].value = "cached" /\ try[i].calls = <<"get">>

\* the checks the log holds, in the order they were evaluated
ChecksOf(l) == SelectSeq(l, LAMBDA x : x.op = "check")

\* the order the claim states: ancestor groups, cog, global, own
ClaimedRank(kind) ==
    CASE kind = "group"  -> 1
      [] kind = "cog"    -> 2
      [] kind = "global" -> 3
      [] OTHER           -> 4

\* C3 as stated: checks are evaluated ancestor groups first (outermost
\* first), then the cog check, then the global checks, then the own check.
C3_ClaimedOrder ==
    LET c == ChecksOf(log) IN
    \A i, j \in 1..Len(c) :
        i < j => /\ ClaimedRank(c[i].kind) <= ClaimedRank(c[j].kind)
                 /\ (c[i].kind = "group" /\ c[j].kind = "group")
                        => c[i].who = Parent(c[j].who)

\* the order the code evaluates: the global checks, last registered first;
\* the ancestors' cog_check; the ancestor groups, outermost first; the own
\* check
ExpectedChain(cmd) ==
    <<Check("global", "second"), Check("global", "first")>>
    \o (IF flags.cog = "checked" /\ Parent(cmd) # None
        THEN <<Check("cog", "checked")>> ELSE <<>>)
    \o (IF cmd = "leaf" THEN <<Check("group", "grp"), Check("group", "sub")>>
        ELSE IF cmd = "sub" THEN <<Check("group", "grp")>> ELSE <<>>)
    \o <<Check("own", cmd)>>

\* C3 (amended): the checks evaluated so far are a prefix of: the global
\* checks (last registered first), the ancestors' cog check, the ancestor
\* groups outermost first, the own check; every one but the last evaluated
\* passed, and nothing is evaluated after a check that returned False.
C3_CheckOrder ==
    LET c == ChecksOf(log) IN
    /\ Len(c) <= Len(ExpectedChain(ctx.command))
    /\ \A i \in 1..Len(c) :
          /\ Check(c[i].kind, c[i].who) = ExpectedChain(ctx.command)[i]
          /\ i < Len(c) => c[i].res = "pass"
    /\ (pc = "invoke" => Len(c) = Len(ExpectedChain(ctx.command)))

\* a chain was cut short by an ancestor group's check, after global checks
C3_Witness ==
    /\ Done
    /\ Len(log) = 4
    /\ log[1].kind = "global"
    /\ log[4] = [op |-> "check", kind |-> "group", who |-> "grp", res |-> "False"]

\* C4: every error that ends the handling of an event - no command found,
\* a check returning False, a failure while binding the options, in an
\* ancestor's callback or in the body - is handed to the command_error
\* hook and does not leave on_interaction_create (cooperative
\* cancellation apart).
C4_AllErrorsHooked ==
    (/\ Done
     /\ outcome.error \notin {"none", "CancelledError"}
     /\ (outcome.error = "CommandNotFound" \/ ctx.command # None)) =>
        outcome.hooked /\ ~outcome.raised

\* C10: once an ancestor group's check has returned False, no group
\* callback and no command body runs, and the handler ends with a
\* check failure handed to the error hook.
C10_AncestorCheckFails ==
    (\E i \in 1..Len(log) :
        log[i].op = "check" /\ log[i].kind = "group" /\ log[i].res = "False")
    => /\ \A j \in 1..Len(log) : log[j].op \notin {"hook", "body"}
       /\ Done
       /\ outcome = Hooked("CheckFailure")

\* the innermost ancestor group's check returned False after every check
\* before it passed
C10_Witness ==
    /\ Done
    /\ ctx.command = "leaf"
    /\ Len(log) > 0
    /\ log[Len(log)] = [op |-> "check", kind |-> "group", who |-> "sub",
                        res |-> "False"]
    /\ outcome.error = "CheckFailure"

(***************************************************************************)
(* Claims about the reconciler, under SpecSync and SpecResync.             *)
(***************************************************************************)
\* C5: in one scope's sync_cmds, update is the set of names on both sides,
\* every remote name is in exactly one of update and delete, every local
\* name in exactly one of update and create, and the three sets are
\* pairwise disjoint.
C5_Partition ==
    sync.called =>
        /\ sync.update = sync.remote \cap sync.local
        /\ \A n \in sync.remote : (n \in sync.update) # (n \in sync.delete)
        /\ \A n \in sync.local : (n \in sync.update) # (n \in sync.create)
        /\ sync.update \cup sync.delete \subseteq sync.remote
        /\ sync.update \cup sync.create \subseteq sync.local
        /\ sync.update \cap sync.delete = {}
        /\ sync.update \cap sync.create = {}
        /\ sync.create \cap sync.delete = {}

\* a scope in which each of the three sets has a name
C5_Witness ==
    /\ sync.called
    /\ sync.create # {}
    /\ sync.update # {}
    /\ sync.delete # {}

\* C6: a second run of register_commands, started once every task of the
\* first has been applied and with the registry unchanged, queues no
\* create, update or delete.
C6_Idempotent ==
    (runs >= 2 /\ rpc = "returned") => state = {}

\* the value a serialized command has at key k: a one-element tuple, or
\* the empty tuple when it has no such key
Field(d, k) == IF k \in DOMAIN d THEN <<d[k]>> ELSE <<>>

\* options as Command.to_dict serializes them: no key for no options
OptionsField(c) == IF c.options = <<>> THEN <<>> ELSE <<c.options>>

\* the registered command reads differently from the platform's definition
Differs(c, d) ==
    \/ <<c.name>> # Field(d, "name")
    \/ <<c.description>> # Field(d, "description")
    \/ OptionsField(c) # Field(d, "options")

\* the operations queued for name n of scope g
OpsFor(g, n) == {q \in state : q.guild_id = g /\ q.name = n}

\* C7: right after a scope's sync_cmds, a name present on both sides has
\* exactly one queued operation, a PATCH addressed to the remote id, if its
\* name, description or options differ from the remote definition, and no
\* queued operation otherwise.
C7_OneUpdateIffDiffers ==
    (sync.called /\ settled = {}) =>
        \A n \in sync.update :
            LET c   == cmds[guilds[sync.guild_id][n]]
                d   == DoneOf(remote[sync.guild_id], n)
                ops == OpsFor(sync.guild_id, n)
            IN  IF Differs(c, d)
                THEN /\ Cardinality(ops) = 1
                     /\ \A q \in ops : q.method = "PATCH" /\ q.id = d.id
                ELSE ops = {}

\* only the description of one command was changed: the run queues one
\* PATCH and nothing else
C7_Witness ==
    /\ sync.called
    /\ settled = {}
    /\ Cardinality(state) = 1
    /\ \E n \in sync.update :
          LET c == cmds[guilds[sync.guild_id][n]]
              d == DoneOf(remote[sync.guild_id], n)
          IN  /\ c.description # d.description
              /\ OptionsField(c) = Field(d, "options")
              /\ \E q \in state : q.method = "PATCH" /\ q.name = n

\* the operations whose request has ended
SettledOps == {s.op : s \in settled}

\* C8 as stated: whichever request of a run fails, every operation the run
\* queued for the other commands and scopes is still issued.
C8_AnyFailureIsolated ==
    rpc = "failed" => \A q \in state : q \in tasks \/ q \in SettledOps

\* C8 (amended): a failed create, update or delete request abandons that
\* operation only: every other queued operation is in flight or has ended,
\* and a request that succeeded has bound its command's id.  A failed list
\* or application-info request ends the run with no operation issued.
C8_TaskFailureIsolated ==
    /\ \A s \in settled :
          ~s.ok => \A q \in state \ {s.op} : q \in tasks \/ q \in SettledOps
    /\ \A s \in settled :
          (s.ok /\ s.op.method # "DELETE") => cmds[s.op.cmd].id # NoId
    /\ rpc = "failed" => tasks = {} /\ settled = {}

\* one request failed, another of the same run succeeded after all ended
C8_Witness ==
    /\ rpc = "returned"
    /\ tasks = {}
    /\ \E s, t \in settled : ~s.ok /\ t.ok /\ t.op.method = "POST"

\* C9 as stated: register_commands has returned only when no task it
\* issued is still in flight.
C9_CompleteOnlySettled ==
    rpc = "returned" => tasks = {}

\* C9 (amended): register_commands returns as soon as it has issued one task
\* per queued operation, without waiting for any: once it has returned,
\* the queued operations are exactly those in flight or ended, and before
\* that no task exists.
C9_ReturnsOnceIssued ==
    /\ rpc = "returned" => /\ tasks \cup SettledOps = state
                           /\ tasks \cap SettledOps = {}
    /\ rpc # "returned" => tasks = {} /\ settled = {}

\* the run has returned with one task ended and another still in flight
C9_Witness ==
    /\ rpc = "returned"
    /\ tasks # {}
    /\ settled # {}

(***************************************************************************)
(* Claims about descent and binding, under SpecDispatch.                   *)
(***************************************************************************)
\* the event addresses grp -> sub -> leaf
TwoLevel ==
    /\ event.name = "grp"
    /\ Len(event.options) = 1
    /\ event.options[1].name = "sub"
    /\ Len(event.options[1].options) = 1
    /\ event.options[1].options[1].name = "leaf"

\* the two-level events whose leaf entry carries no entity option
PlainLeafCalls ==
    {LeafCall(<<>>), LeafCall(<<ValueEntry("amount", "5")>>),
     <<SubEntry("sub", <<BareEntry("leaf")>>)>>}

\* the callbacks of commands the handler has run
Bodies == SelectSeq(log, LAMBDA x : x.op = "body")

\* C11: for an event nested two levels, the binder ends with the context's
\* command being the leaf, never grp or sub; only the leaf's callback is
\* run as the body; and with or without values in the leaf entry the binder
\* raises nothing.
C11_ResolvesToLeaf ==
    (TwoLevel /\ ctx.command # None) =>
        /\ ctx.bound => ctx.command = "leaf"
        /\ pc \in {"me", "can_run", "invoke"} => ctx.bound
        /\ \A i \in 1..Len(Bodies) : Bodies[i].who = "leaf"
        /\ event.options \in PlainLeafCalls => ~outcome.raised

\* the leaf entry carries neither values nor nested entries, and the leaf's
\* callback has run
C11_Witness ==
    /\ Done
    /\ event.options = <<SubEntry("sub", <<BareEntry("leaf")>>)>>
    /\ Len(Bodies) = 1
    /\ Bodies[1].who = "leaf"
    /\ Bodies[1].res = "ok"

(***************************************************************************)
(* Claims about Command construction, under SpecBuild.                     *)
(***************************************************************************)
\* how many parameters are annotated with the context type
CtxCount(params) ==
    Cardinality({i \in 1..Len(params) : params[i].annotation = "Context"})

\* nothing but the context slot can fail the construction: there is a
\* description and every other parameter is an Option or has a default
OtherwiseValid(s) ==
    /\ s.description
    /\ \A i \in 1..Len(s.params) :
          s.params[i].annotation = "other" => s.params[i].default

\* C12: constructing a Command succeeds if and only if exactly one
\* parameter of the callback is annotated with the context type.
C12_ExactlyOneContext ==
    (built.done /\ OtherwiseValid(sig)) =>
        (built.error = "none" <=> CtxCount(sig.params) = 1)

(***************************************************************************)
(* Claims about the response handle, under SpecRespond.                    *)
(***************************************************************************)
\* the positions in  sent  of the requests with this method
SentAt(method) == {i \in 1..Len(sent) : sent[i].method = method}

\* the respond calls that got as far as issuing a request
Issuing == {k \in 1..Len(history) : history[k].op = "respond" /\ history[k].req # 0}

\* C13: over any sequence of respond calls on one Context, at most one
\* callback POST is issued: the first respond call that passes validation
\* issues it and opens the handle, and every later respond call that issues
\* a request issues a PATCH of the original response; a call that fails
\* validation issues nothing.
C13_OneCallback ==
    /\ Cardinality(SentAt("POST")) <= 1
    /\ (webhook # None) <=> (SentAt("POST") # {})
    /\ \A k \in Issuing :
          sent[history[k].req].method =
              IF \E j \in Issuing : j < k THEN "PATCH" ELSE "POST"
    /\ \A k \in 1..Len(history) :
          history[k].op = "respond" =>
              (history[k].req # 0 <=> history[k].error \in {"none", "HTTPException"})

\* a call that failed validation, then the callback, then an edit
C13_Witness ==
    /\ Len(history) = 3
    /\ history[1].error = "ValueError"
    /\ Len(sent) = 2
    /\ sent[1].method = "POST"
    /\ sent[2].method = "PATCH"

\* C14: a PATCH or DELETE of the original response is issued only after a
\* callback POST of the same Context was issued and succeeded.
C14_EditsAfterCallback ==
    \A i \in SentAt("PATCH") \cup SentAt("DELETE") :
        \E k \in Issuing :
            /\ history[k].req < i
            /\ sent[history[k].req].method = "POST"
            /\ history[k].error = "none"

\* C19 as stated: the callback for a request of kind 2 carries kind 4, and
\* for a request of kind 3 kind 5.
C19_Folded ==
    \A k \in Issuing :
        sent[history[k].req].method = "POST" =>
            /\ history[k].rtype = Acknowledge =>
                  sent[history[k].req].type = ChannelMessageWithSource
            /\ history[k].rtype = ChannelMessage =>
                  sent[history[k].req].type = DeferredChannelMessageWithSource

\* the respond calls made with a deprecated kind
DeprecatedCalls ==
    SelectSeq(history, LAMBDA h : h.op = "respond"
                                  /\ h.rtype \in {Acknowledge, ChannelMessage})

\* C19 (amended): every respond call with kind 2 or 3 emits one warning,
\* and the callback a respond call issues carries the kind it was called
\* with, 2 and 3 included.
C19_KindUnchanged ==
    /\ Len(warnings) = Len(DeprecatedCalls)
    /\ \A i \in 1..Len(warnings) : warnings[i] = DeprecatedCalls[i].rtype
    /\ \A k \in Issuing :
          sent[history[k].req].method = "POST" =>
              sent[history[k].req].type = history[k].rtype

\* respond(rtype=Acknowledge) opened the handle
C19_Witness ==
    /\ Len(history) = 1
    /\ history[1].rtype = Acknowledge
    /\ warnings = <<Acknowledge>>
    /\ Len(sent) = 1
    /\ sent[1].method = "POST"
    /\ sent[1].type = Acknowledge

(***************************************************************************)
(* Further claims about resolution and invocation, under SpecDispatch.     *)
(***************************************************************************)
\* a _try_get call that found nothing in the cache (the lookup returned
\* None, failed for want of a real guild, or was not made), with fetching
\* disabled and the id in the snapshot fragment, whose data is complete
SnapshotCase(t) ==
    /\ t.hasResolved
    /\ t.inSnap
    /\ ~t.fng
    /\ t.get \in {"miss", "attr", "-"}
    /\ t.resolve # "KeyError"

Hooks == SelectSeq(log, LAMBDA x : x.op = "hook")

\* the ancestors of a command of the tree, outermost first
ExpectedHooks(cmd) ==
    IF cmd = "leaf" THEN <<"grp", "sub">>
    ELSE IF cmd = "sub" THEN <<"grp">>
    ELSE <<>>

AmountCall == LeafCall(<<ValueEntry("amount", "5")>>)
TextCall   == <<ValueEntry("text", "hi")>>

\* C17: a terminal entry of a non-entity type is matched by its declared
\* name ('amount' for the parameter n of leaf) and its raw value is bound,
\* unchanged, under the parameter's name, next to the context under the
\* context parameter; the binder raises nothing.
C17_RawValueBound ==
    /\ (event.options = AmountCall /\ event.name = "grp" /\ ctx.command # None) =>
          /\ ~outcome.raised
          /\ pc \in {"me", "can_run", "invoke"} => ctx.bound
          /\ ctx.bound =>
                ctx.options = {<<"n", Raw("5")>>, <<"ctx", Entity("Context", "")>>}
    /\ (event.options = TextCall /\ event.name = "solo" /\ ctx.command # None) =>
          /\ ~outcome.raised
          /\ pc \in {"me", "can_run", "invoke"} => ctx.bound
          /\ ctx.bound =>
                ctx.options = {<<"text", Raw("hi")>>, <<"ctx", Entity("Context", "")>>}

\* the body of leaf ran with n = 5
C17_Witness ==
    /\ Done
    /\ event.options = AmountCall
    /\ <<"n", Raw("5")>> \in ctx.options
    /\ Len(Bodies) = 1
    /\ Bodies[1].who = "leaf"

(***************************************************************************)
(* Claims about the requests of a sync run, under SpecSync.                *)
(***************************************************************************)
\* the id the platform has for a name in a scope, wrapped; <<>> when it has
\* no command of that name there
RemoteId(g, name) ==
    IF \E d \in remote[g] : d.name = name
    THEN <<(CHOOSE d \in remote[g] : d.name = name).id>>
    ELSE <<>>

\* C18: every queued update is a PATCH whose route ends with the id the
\* platform listed for the command and whose payload is the serialized
\* command without its name; every queued delete is a DELETE whose route
\* ends with the listed id; every queued create is a POST to the collection
\* path of the scope, with no id, whose payload is the whole serialized
\* command, name included.  Until a task has ended the platform still holds
\* what was listed.
C18_RequestShapes ==
    \A q \in state :
        /\ Route(q).guild_id = q.guild_id
        /\ q.method = "POST" =>
              /\ Route(q).id = <<>>
              /\ q.json = ToDict(cmds[q.cmd])
              /\ "name" \in DOMAIN q.json
              /\ q.json.name = q.name
              /\ cmds[q.cmd].guild_id = q.guild_id
        /\ q.method = "PATCH" =>
              /\ Len(Route(q).id) = 1
              /\ "name" \notin DOMAIN q.json
              /\ \A k \in DOMAIN ToDict(cmds[q.cmd]) \ {"name"} :
                    k \in DOMAIN q.json /\ q.json[k] = ToDict(cmds[q.cmd])[k]
              /\ cmds[q.cmd].name = q.name
              /\ settled = {} => Route(q).id = RemoteId(q.guild_id, q.name)
        /\ q.method = "DELETE" =>
              /\ Len(Route(q).id) = 1
              /\ settled = {} => Route(q).id = RemoteId(q.guild_id, q.name)

\* one run has issued a create, an update and a delete, none ended yet
C18_Witness ==
    /\ rpc = "returned"
    /\ settled = {}
    /\ \E a, b, c \in tasks :
          a.method = "POST" /\ b.method = "PATCH" /\ c.method = "DELETE"

\* C20: once register_commands has returned and every task it issued has
\* ended with a successful request, each command of the registry has as its
\* id the id the platform holds for its name in its scope.
C20_IdsBound ==
    (rpc = "returned" /\ tasks = {} /\ \A s \in settled : s.ok) =>
        \A o \in DOMAIN cmds :
            <<cmds[o].id>> = RemoteId(cmds[o].guild_id, cmds[o].name)

(***************************************************************************)
(* Claims about what a sync run writes, under SpecSync.                    *)
(***************************************************************************)
\* C21 as stated: no step of a sync run changes a command's name,
\* description, options or scope; the id is all it writes.
C21_OnlyIdWritten ==
    [][/\ DOMAIN cmds' = DOMAIN cmds
       /\ \A o \in DOMAIN cmds :
             cmds'[o] = [cmds[o] EXCEPT !.id = cmds'[o].id]]_vars

\* C21 (amended): no step of a sync run changes a command's name,
\* description or options, or adds or removes a command; besides the id it
\* writes the scope, and only of a command declared global, which gets the
\* bot's debug_guild.
C21_IdAndDebugScope ==
    [][/\ DOMAIN cmds' = DOMAIN cmds
       /\ \A o \in DOMAIN cmds :
             /\ cmds'[o].name = cmds[o].name
             /\ cmds'[o].description = cmds[o].description
             /\ cmds'[o].options = cmds[o].options
             /\ \/ cmds'[o].guild_id = cmds[o].guild_id
                \/ /\ cmds[o].guild_id = None
                   /\ cmds'[o].guild_id = flags.debug_guild]_vars

\* a run moved solo, declared global, into the debug guild and has bound
\* its id
C21_Witness ==
    /\ rpc = "returned"
    /\ flags.debug_guild = "g1"
    /\ \E o \in DOMAIN cmds :
          /\ cmds[o].name = "solo"
          /\ cmds[o].guild_id = "g1"
          /\ cmds[o].id # NoId

(***************************************************************************)
(* Claims about the cog's check and about events without a guild, under    *)
(* SpecDispatch.                                                           *)
(***************************************************************************)
\* C22: when the commands belong to a cog that defines cog_check, a
\* command's body runs only after the cog's check was evaluated and passed,
\* whether the command has ancestors or not; and a cog's check that returned
\* False ends the handler with a CheckFailure and no body.
C22_CogCheckGuards ==
    /\ (flags.cog = "checked" /\ Bodies # <<>>) =>
          \E i \in 1..Len(ChecksOf(log)) :
              ChecksOf(log)[i].kind = "cog" /\ ChecksOf(log)[i].res = "pass"
    /\ (\E i \in 1..Len(ChecksOf(log)) :
            ChecksOf(log)[i].kind = "cog" /\ ChecksOf(log)[i].res = "False") =>
          /\ Bodies = <<>>
          /\ Done
          /\ outcome = Hooked("CheckFailure")

\* the orders in which one _try_get call may go through its accessors
TierOrders ==
    {<<>>, <<"get">>, <<"get", "fetch">>, <<"get", "resolve">>,
     <<"get", "fetch", "resolve">>, <<"resolve">>}

\* C23: within one _try_get call the accessors are invoked in the order
\* cache, fetch, snapshot; the fetch accessor only after the cache returned
\* None and with fetching permitted; a fetch that fails with HTTPException
\* goes on to the snapshot instead of raising; and the snapshot and the
\* placeholder are reached only when the cache was skipped by policy or had
\* nothing and no fetch succeeded.
C23_TiersInOrder ==
    \A i \in 1..Len(try) :
        /\ try[i].calls \in TierOrders
        /\ try[i].fetch # "-" => try[i].get = "miss" /\ try[i].fng
        /\ try[i].fetch = "http" =>
              /\ try[i].error # "HTTPException"
              /\ (try[i].hasResolved /\ try[i].inSnap) => try[i].resolve # "-"
        /\ (try[i].resolve # "-" \/ try[i].value = "default") =>
              /\ try[i].get \in {"-", "miss", "attr"}
              /\ try[i].fetch \in {"-", "http"}
              /\ try[i].get = "-" => ~try[i].fq

(***************************************************************************)
(* Claims about the queues of a sync run, under SpecSync.                  *)
(***************************************************************************)
\* C24: among the operations one run queues and issues, no two are for the
\* same name in the same scope, whatever their methods, and no two of those
\* that write an id on success are for the same command.
C24_OneTaskPerCommand ==
    /\ tasks \subseteq state
    /\ \A p, q \in state :
          /\ (p.guild_id = q.guild_id /\ p.name = q.name) => p = q
          /\ (p.method # "DELETE" /\ q.method # "DELETE" /\ p.cmd = q.cmd) => p = q
    /\ \A q \in state :
          q.method # "DELETE" =>
              cmds[q.cmd].name = q.name /\ cmds[q.cmd].guild_id = q.guild_id

\* a create and an update of one scope were issued together, one has ended
\* and the other is in flight
C24_Witness ==
    /\ rpc = "returned"
    /\ \E p \in tasks, s \in settled :
          /\ p.guild_id = s.op.guild_id
          /\ {p.method, s.op.method} = {"POST", "PATCH"}

\* the scopes register_commands has listed and diffed so far in this run
Synced == {g \in DOMAIN guilds : ~\E i \in 1..Len(todoScopes) : todoScopes[i] = g}

\* the queued operations of one scope
QueuedFor(g) == {q \in state : q.guild_id = g}

\* C25: the operations queued for a scope are those the diff of that
\* scope's own local commands against that scope's own listing gives,
\* whatever the other scopes hold and whatever was queued for them before
\* or after; nothing is queued for a scope that was not diffed.  Until a
\* task has ended the platform still holds what was listed.
C25_PerScope ==
    (rpc \in {"listing", "returned"} /\ settled = {}) =>
        /\ \A g \in Synced :
              QueuedFor(g) = SyncState({}, guilds[g], remote[g], g)
        /\ \A q \in state : q.guild_id \in Synced

\* grp is declared both global and for g1; the platform lists it for g1
\* only, with other data: the two are diffed apart, the global one to
\* create, the other to update
C25_Witness ==
    /\ rpc = "returned"
    /\ settled = {}
    /\ \E p, q \in state :
          /\ p.name = "grp" /\ q.name = "grp"
          /\ p.guild_id = None /\ q.guild_id = "g1"
          /\ p.method = "POST" /\ q.method = "PATCH"

(***************************************************************************)
(* Claims about the lookup of the command, under SpecDispatch.             *)
(***************************************************************************)
\* C26: the command on_interaction_create has selected for an event is
\* global or declared for the guild the event comes from.
C26_SameScope ==
    pc = "guild" =>
        \A o \in DOMAIN cmds :
            cmds[o].name = ctx.command =>
                cmds[o].guild_id \in {None, event.guild_id}

\* every check of the command's chain was evaluated and passed
GuardsPassed ==
    /\ ctx.command # None
    /\ Len(ChecksOf(log)) = Len(CheckChain(ctx.command))
    /\ \A i \in 1..Len(ChecksOf(log)) : ChecksOf(log)[i].res = "pass"

\* C27: the handler of an event without guild_id, whose command was found,
\* whose options were bound and whose checks all passed, ends with the
\* command's callback having been called.
C27_DirectMessageInvoked ==
    (Done /\ event.guild_id = None /\ ctx.bound /\ GuardsPassed) =>
        /\ Bodies # <<>>
        /\ Bodies[1].who = ctx.command

(***************************************************************************)
(* Claims about the registry in a sync run, under SpecSync.                *)
(***************************************************************************)
\* the ways a run can have dealt with command o
Created(o)   == \E q \in state : q.method = "POST" /\ q.cmd = o
Updated(o)   == \E q \in state : q.method = "PATCH" /\ q.cmd = o
Unchanged(o) == cmds[o].id # NoId

\* C28: once register_commands has built its queues and before any task
\* has ended, every command of the registry is queued for create, queued
\* for update or has had its id bound as unchanged, and only one of the
\* three.
C28_NoneDropped ==
    (rpc = "returned" /\ settled = {}) =>
        \A o \in DOMAIN cmds :
            /\ Created(o) \/ Updated(o) \/ Unchanged(o)
            /\ ~(Created(o) /\ Updated(o))
            /\ ~(Created(o) /\ Unchanged(o))
            /\ ~(Updated(o) /\ Unchanged(o))

(***************************************************************************)
(* Claims about events during a sync run, under SpecLive.                  *)
(***************************************************************************)
\* the create or update task of command o is in flight, or has failed
InFlight(o)   == \E t \in tasks : t.method # "DELETE" /\ t.cmd = o
HasFailed(o)  == \E s \in settled : ~s.ok /\ s.op.method # "DELETE" /\ s.op.cmd = o

\* C29: an event the platform sends for a command of the registry whose id
\* is not bound, while its create or update task is in flight or after it
\* failed, is given to that command: the lookup ends without error and the
\* Context is constructed with it.
C29_RoutedWhileUnbound ==
    [][(pc = "idle" /\ pc' # "idle") =>
          \A o \in DOMAIN cmds :
              (event' \in EventsFor(o) /\ cmds[o].id = NoId
                    /\ (InFlight(o) \/ HasFailed(o))) =>
                  (outcome'.error = "none" /\ ctx'.cmd = o)]_vars

(***************************************************************************)
(* Claims about concurrent respond calls, under SpecConcurrent.            *)
(***************************************************************************)
\* the calls whose request is still awaited
Pending == {k \in 1..Len(history) : history[k].error = "pending"}

\* C30: however the respond calls of one Context interleave at their
\* awaits, at most one callback POST is issued; when any call has issued a
\* request, the first of them issued the POST and each of the others a
\* PATCH, also while the POST is still awaited.
C30_OneInitialCallback ==
    /\ Cardinality(SentAt("POST")) <= 1
    /\ Issuing # {} => Cardinality(SentAt("POST")) = 1
    /\ \A k \in Issuing :
          (\A j \in Issuing : k <= j) <=> sent[history[k].req].method = "POST"
    /\ \A k \in Issuing : sent[history[k].req].method \in {"POST", "PATCH"}
    /\ Pending \subseteq Issuing

\* three calls are awaiting their requests at once: the callback and two
\* edits
C30_Witness ==
    /\ Cardinality(Pending) = 3
    /\ Len(sent) = 3
    /\ sent[1].method = "POST"
    /\ sent[2].method = "PATCH"
    /\ sent[3].method = "PATCH"

(***************************************************************************)
(* Claims about the global scope in a sync run, under SpecSync.            *)
(***************************************************************************)
\* the commands the platform holds in the global scope that no command of
\* the registry matches by name and scope
GlobalOrphans ==
    {d \in remote[None] :
        ~\E o \in DOMAIN cmds : cmds[o].guild_id = None /\ cmds[o].name = d.name}

\* C31: a run of register_commands over a registry that is not empty, once
\* it has returned and before any task has ended, has queued a DELETE in the
\* global scope for every command the platform holds there without a local
\* counterpart, whether or not the registry has a global command.
C31_GlobalReconciled ==
    (rpc = "returned" /\ sync.called /\ settled = {}) =>
        \A d \in GlobalOrphans :
            \E q \in state :
                q.method = "DELETE" /\ q.guild_id = None /\ q.id = d.id

====
